---- MODULE Spec2Model ----
(***************************************************************************)
(* AlphaPy pipeline orchestrator: data_pipeline, model_pipeline,           *)
(* score_with_model and main_pipeline of alphapy/__main__.py and of the    *)
(* older entry point alphapy/alpha.py.  The collaborators (get_data,       *)
(* create_features, first_fit, ...) are outside these files: every call    *)
(* to one of them is recorded in `calls` and either returns or raises.     *)
(***************************************************************************)
EXTENDS Integers, Sequences, FiniteSets, TLC

\* ---------------------------------------------------------------- bounds
MaxRows == 2
MaxAlgos == 2

\* ------------------------------------------------------- input universes
ColNames == {"c1", "c2"}
RowDeltas == {0 - 1, 0, 1}
Entries == {"__main__", "alpha"}
ModelType == {"classification", "regression"}

\* scorers dictionary of alphapy.estimators (keys only)
scorers == {"roc_auc"}
ScorerNames == scorers \cup {"bogus"}

\* dictionary returned by get_estimators: id -> Estimator(estimator, scoring)
\* plus whether the estimator object carries a coef_ attribute
estimators ==
  [e1 |-> [estimator |-> "est1", scoring |-> TRUE,  coef |-> TRUE],
   e2 |-> [estimator |-> "est2", scoring |-> FALSE, coef |-> TRUE],
   e3 |-> [estimator |-> "est3", scoring |-> FALSE, coef |-> FALSE]]
AlgoIds == DOMAIN estimators \cup {"zz"}

Min(a, b) == IF a < b THEN a ELSE b
Max(a, b) == IF a < b THEN b ELSE a

\* ------------------------------------------------------------ data tables
Table(r, c) == [rows |-> r, cols |-> c]
NoTable == Table(0, {})
Tables == {Table(r, c) : r \in 1..MaxRows, c \in (SUBSET ColNames) \ {{}}}

\* X.shape
shape(t) == <<t.rows, Cardinality(t.cols)>>

\* drop_features(X, drop): the table without the dropped columns
drop_features(t, drop) == Table(t.rows, t.cols \ drop)

\* pd.concat([X_train, X_test]): rows stacked, columns outer-joined
concat(a, b) == Table(a.rows + b.rows, a.cols \cup b.cols)

\* np.array_split(t, [k]): the first k rows and the remaining rows
array_split(t, k) ==
  <<Table(Min(k, t.rows), t.cols), Table(t.rows - Min(k, t.rows), t.cols)>>

\* result table of an external feature transform, as configured in collab
Transformed(t, b) ==
  Table(Max(0, t.rows + b.drows), (t.cols \cup b.added) \ b.removed)

\* the guard of the merge: X_train.shape[1] == X_test.shape[1]
ColumnsMatch_NoCheck(a, b) == TRUE
ColumnsMatch(a, b) == shape(a)[2] = shape(b)[2]

\* ------------------------------------------------------------------ state
VARIABLES
  entry,          \* which file's pipeline runs
  args,           \* parsed command line (--score / --train)
  specs,          \* the configuration map: specs, then model.specs
  algolist,       \* model.algolist
  source,         \* tables that get_data reads, [train, test]
  collab,         \* behaviour of the three external feature transforms
  persisted,      \* a saved model exists in specs['directory']
  pc,             \* position in main_pipeline and its callees
  exc,            \* exception that ended the run, or "none"
  calls,          \* collaborator calls made so far, in order
  logged,         \* selected logger.info messages, in order
  X_train, X_test, split_point, X,
  new_features, all_features, sig_features,
  model_X,        \* model.X_train / model.X_test as kept by save_features
  i,              \* index of the loop over model.algolist
  estimator, scoring, est,  \* locals of the loop body
  sw_X_test       \* local X_test of score_with_model

dataVars == <<X_train, X_test, split_point, X, new_features, all_features,
              sig_features>>
loopVars == <<i, estimator, scoring, est, sw_X_test>>
envVars == <<entry, args, algolist, source, collab, persisted>>
inputVars == <<envVars, specs>>
vars == <<inputVars, pc, exc, calls, logged, dataVars, model_X, loopVars>>

Unbound == "unbound"

Call(fn, a1, a2, ok) == [fn |-> fn, a1 |-> a1, a2 |-> a2, ok |-> ok]
Msg(m, a) == [msg |-> m, arg |-> a]

Fns(seq) == {seq[k].fn : k \in 1..Len(seq)}
Pos(seq, fn) == {k \in 1..Len(seq) : seq[k].fn = fn}
PosA(seq, fn, a1) == {k \in 1..Len(seq) : seq[k].fn = fn /\ seq[k].a1 = a1}

\* ------------------------------------------------------------------- Init
Lists(n) ==
  {s \in UNION {[1..k -> AlgoIds] : k \in 1..n} :
     \A p, q \in DOMAIN s : p # q => s[p] # s[q]}

Behaviour(d, a, r) == [drows |-> d, added |-> a, removed |-> r]
WellBehaved ==
  [create_features     |-> Behaviour(0, {"f1"}, {}),
   create_interactions |-> Behaviour(0, {"x1"}, {}),
   remove_lv_features  |-> Behaviour(0, {}, {"x1"})]
Collabs ==
  {[create_features     |-> Behaviour(d1, {"f1"}, {}),
    create_interactions |-> Behaviour(d2, {"x1"}, {}),
    remove_lv_features  |-> Behaviour(d3, {}, r)] :
     d1 \in RowDeltas, d2 \in RowDeltas, d3 \in RowDeltas,
     r \in {{}, {"x1"}}}

Specs(sc, mt, tl, fs, gs, rf, sa, sr, dr) ==
  [scoring |-> sc, model_type |-> mt, test_labels |-> tl,
   feature_selection |-> fs, grid_search |-> gs, rfe |-> rf,
   sampling |-> sa, scorer |-> sr, calibration |-> FALSE, drop |-> dr]

\* the mode of the run: --score/--train for __main__.py, the configured
\* 'scoring_mode' for alpha.py (kept in the same field of specs here)
Mode == IF entry = "__main__" THEN args.scoring ELSE specs.scoring

\* runs that vary the data and the transforms, under a plain configuration
InitData ==
  /\ specs \in {Specs(sc, "classification", TRUE, FALSE, FALSE, FALSE, FALSE,
                      "roc_auc", dr) : sc \in BOOLEAN, dr \in {{}, {"c1"}}}
  /\ algolist = <<"e1">>
  /\ source \in [train : Tables, test : Tables]
  /\ collab \in Collabs
  /\ persisted = Mode

\* runs that vary the configuration and the algorithm list, on plain data
InitConfig ==
  /\ specs \in {Specs(sc, mt, tl, fs, gs, rf, sa, sr, {}) :
                  sc \in BOOLEAN, mt \in ModelType, tl \in BOOLEAN,
                  fs \in BOOLEAN, gs \in BOOLEAN, rf \in BOOLEAN,
                  sa \in BOOLEAN, sr \in ScorerNames}
  /\ Mode =>
       /\ ~specs.feature_selection /\ ~specs.grid_search /\ ~specs.rfe
       /\ ~specs.sampling /\ specs.scorer = "roc_auc"
  /\ algolist \in (IF Mode THEN {<<"e1">>} ELSE Lists(MaxAlgos))
  /\ source = [train |-> Table(MaxRows, ColNames), test |-> Table(1, ColNames)]
  /\ collab = WellBehaved
  /\ persisted \in (IF Mode THEN BOOLEAN ELSE {FALSE})

Init ==
  /\ entry \in Entries
  /\ args \in [scoring : BOOLEAN]
  /\ InitData \/ InitConfig
  \* get_model_config gives no 'scoring' to __main__.py; alpha.py has no flag
  /\ IF entry = "__main__" THEN ~specs.scoring ELSE ~args.scoring
  /\ pc = "main"
  /\ exc = "none"
  /\ calls = <<>>
  /\ logged = <<>>
  /\ X_train = NoTable /\ X_test = NoTable /\ X = NoTable
  /\ split_point = 0
  /\ new_features = NoTable /\ all_features = NoTable /\ sig_features = NoTable
  /\ model_X = [train |-> NoTable, test |-> NoTable, saved |-> 0, selected |-> 0]
  /\ i = 1
  /\ estimator = Unbound /\ scoring = Unbound /\ est = Unbound
  /\ sw_X_test = NoTable

\* ------------------------------------------------- collaborator call steps
\* A call to collaborator fn that returns: control moves on to `next`.
Returns(fn, a1, a2, next) ==
  /\ calls' = Append(calls, Call(fn, a1, a2, TRUE))
  /\ pc' = next
  /\ exc' = exc

\* Where control goes when collaborator fn raises: no call of the pipeline
\* is wrapped in a handler, so the exception leaves main_pipeline.
Propagate_Swallowed(fn) == IF fn = "load_model_object" THEN "predict" ELSE "raised"
Propagate_Retry(fn) == IF fn = "shuffle_data" THEN "shuffle_data" ELSE "raised"
Propagate(fn) == "raised"

\* The same call raising: the exception propagates out of main_pipeline.
Raises(fn, a1, a2) ==
  /\ calls' = Append(calls, Call(fn, a1, a2, FALSE))
  /\ pc' = Propagate(fn)
  /\ exc' = "CollaboratorError"

\* An exception raised by the pipeline's own code.
Raise(name) ==
  /\ pc' = "raised"
  /\ exc' = name

Goto(next) == pc' = next /\ exc' = exc

\* ------------------------------------------------------------------- main
\* the configuration map once main() has read it and set the mode
\* (__main__.py: specs['scoring'] = args.scoring; alpha.py: no write)
Configured(e, a, sp) ==
  IF e = "__main__" THEN [sp EXCEPT !.scoring = a.scoring] ELSE sp

\* main: specs = get_model_config(...); specs['scoring'] = args.scoring;
\* model = Model(specs); model = main_pipeline(model)
main ==
  /\ pc = "main"
  /\ specs' = Configured(entry, args, specs)
  /\ Goto("main_pipeline")
  /\ UNCHANGED <<envVars, calls, logged, dataVars, model_X, loopVars>>

\* ---------------------------------------------------------- main_pipeline
\* main_pipeline: read the scoring flag, then call data_pipeline
main_pipeline_Resets ==
  /\ pc = "main_pipeline"
  /\ Goto("get_data")
  /\ specs' = [specs EXCEPT !.scoring = FALSE]
  /\ UNCHANGED <<envVars, calls, logged, dataVars, model_X, loopVars>>
main_pipeline ==
  /\ pc = "main_pipeline"
  /\ Goto("get_data")
  /\ UNCHANGED <<inputVars, calls, logged, dataVars, model_X, loopVars>>

\* ---------------------------------------------------------- data_pipeline
\* X_train, y_train = get_data(model, 'train'); X_test, y_test = get_data(model, 'test')
get_data ==
  /\ pc = "get_data"
  /\ \/ /\ Raises("get_data", "train", "-")
        /\ UNCHANGED <<X_train, X_test>>
     \/ /\ calls' = calls \o <<Call("get_data", "train", "-", TRUE),
                               Call("get_data", "test", "-", FALSE)>>
        /\ Raise("CollaboratorError")
        /\ X_train' = source.train
        /\ UNCHANGED X_test
     \/ /\ calls' = calls \o <<Call("get_data", "train", "-", TRUE),
                               Call("get_data", "test", "-", TRUE)>>
        /\ Goto("drop_features")
        /\ X_train' = source.train
        /\ X_test' = source.test
  /\ UNCHANGED <<inputVars, logged, split_point, X, new_features,
                 all_features, sig_features, model_X, loopVars>>

\* X_train = drop_features(X_train, drop); X_test = drop_features(X_test, drop)
DropFeatures ==
  /\ pc = "drop_features"
  /\ \/ /\ Raises("drop_features", "train", "-")
        /\ UNCHANGED <<X_train, X_test>>
     \/ /\ calls' = calls \o <<Call("drop_features", "train", "-", TRUE),
                               Call("drop_features", "test", "-", FALSE)>>
        /\ Raise("CollaboratorError")
        /\ X_train' = drop_features(X_train, specs.drop)
        /\ UNCHANGED X_test
     \/ /\ calls' = calls \o <<Call("drop_features", "train", "-", TRUE),
                               Call("drop_features", "test", "-", TRUE)>>
        /\ Goto("statistics")
        /\ X_train' = drop_features(X_train, specs.drop)
        /\ X_test' = drop_features(X_test, specs.drop)
  /\ UNCHANGED <<inputVars, logged, split_point, X, new_features,
                 all_features, sig_features, model_X, loopVars>>

\* which targets np.unique is applied to while logging the statistics
\* (__main__.py gates both probes on the model type, alpha.py does not)
ProbesTrain(e, sp) == e = "alpha" \/ sp.model_type = "classification"
ProbesTest_LabelsOnly(e, sp) == sp.test_labels
ProbesTest(e, sp) ==
  IF e = "alpha" THEN sp.test_labels
  ELSE sp.model_type = "classification" /\ sp.test_labels

Probe(cond, y) == IF cond THEN <<Call("np.unique", y, "-", TRUE)>> ELSE <<>>

\* "Original Feature Statistics"
LogStatistics ==
  /\ pc = "statistics"
  /\ calls' = calls \o Probe(ProbesTrain(entry, specs), "y_train")
                    \o Probe(ProbesTest(entry, specs), "y_test")
  /\ Goto("merge")
  /\ UNCHANGED <<inputVars, logged, dataVars, model_X, loopVars>>

\* Merge training and test data, or raise IndexError
Merge ==
  /\ pc = "merge"
  /\ IF ColumnsMatch(X_train, X_test)
       THEN /\ split_point' = shape(X_train)[1]
            /\ X' = concat(X_train, X_test)
            /\ Goto("create_features")
       ELSE /\ Raise("IndexError")
            /\ UNCHANGED <<split_point, X>>
  /\ UNCHANGED <<inputVars, calls, logged, X_train, X_test, new_features,
                 all_features, sig_features, model_X, loopVars>>

\* save_features(model, X_train, X_test, ...): keeps the two tables in the model
save_features(m, tr, te) ==
  [m EXCEPT !.train = tr, !.test = te, !.saved = @ + 1]

\* new_features = create_features(X, model, split_point, y_train);
\* re-split at split_point and save
CreateFeatures ==
  /\ pc = "create_features"
  /\ \/ /\ Raises("create_features", "X", "-")
        /\ UNCHANGED <<new_features, X_train, X_test, model_X>>
     \/ LET nf == Transformed(X, collab.create_features)
            parts == array_split(nf, split_point)
        IN /\ new_features' = nf
           /\ X_train' = parts[1]
           /\ X_test' = parts[2]
           /\ \/ /\ calls' = calls \o <<Call("create_features", "X", "-", TRUE),
                                        Call("save_features", "1", "-", TRUE)>>
                 /\ Goto("create_interactions")
                 /\ model_X' = save_features(model_X, parts[1], parts[2])
              \/ /\ calls' = calls \o <<Call("create_features", "X", "-", TRUE),
                                        Call("save_features", "1", "-", FALSE)>>
                 /\ Raise("CollaboratorError")
                 /\ UNCHANGED model_X
  /\ UNCHANGED <<inputVars, logged, split_point, X, all_features,
                 sig_features, loopVars>>

\* all_features = create_interactions(new_features, model); re-split and save
CreateInteractions ==
  /\ pc = "create_interactions"
  /\ \/ /\ Raises("create_interactions", "new_features", "-")
        /\ UNCHANGED <<all_features, X_train, X_test, model_X>>
     \/ LET af == Transformed(new_features, collab.create_interactions)
            parts == array_split(af, split_point)
        IN /\ all_features' = af
           /\ X_train' = parts[1]
           /\ X_test' = parts[2]
           /\ \/ /\ calls' = calls \o
                      <<Call("create_interactions", "new_features", "-", TRUE),
                        Call("save_features", "2", "-", TRUE)>>
                 /\ Goto("remove_lv_features")
                 /\ model_X' = save_features(model_X, parts[1], parts[2])
              \/ /\ calls' = calls \o
                      <<Call("create_interactions", "new_features", "-", TRUE),
                        Call("save_features", "2", "-", FALSE)>>
                 /\ Raise("CollaboratorError")
                 /\ UNCHANGED model_X
  /\ UNCHANGED <<inputVars, logged, split_point, X, new_features,
                 sig_features, loopVars>>

\* sig_features = remove_lv_features(all_features); re-split and save;
\* data_pipeline returns and main_pipeline branches on the scoring flag
RemoveLvFeatures ==
  /\ pc = "remove_lv_features"
  /\ \/ /\ Raises("remove_lv_features", "all_features", "-")
        /\ UNCHANGED <<sig_features, X_train, X_test, model_X>>
     \/ LET sf == Transformed(all_features, collab.remove_lv_features)
            parts == array_split(sf, split_point)
        IN /\ sig_features' = sf
           /\ X_train' = parts[1]
           /\ X_test' = parts[2]
           /\ \/ /\ calls' = calls \o
                      <<Call("remove_lv_features", "all_features", "-", TRUE),
                        Call("save_features", "3", "-", TRUE)>>
                 /\ Goto("branch")
                 /\ model_X' = save_features(model_X, parts[1], parts[2])
              \/ /\ calls' = calls \o
                      <<Call("remove_lv_features", "all_features", "-", TRUE),
                        Call("save_features", "3", "-", FALSE)>>
                 /\ Raise("CollaboratorError")
                 /\ UNCHANGED model_X
  /\ UNCHANGED <<inputVars, logged, split_point, X, new_features,
                 all_features, loopVars>>

\* if scoring: score_with_model(model) else: model = model_pipeline(model)
BranchTarget_Always(sp) == "shuffle_data"
BranchTarget(sp) == IF sp.scoring THEN "load_model_object" ELSE "shuffle_data"

Branch ==
  /\ pc = "branch"
  /\ Goto(BranchTarget(specs))
  /\ UNCHANGED <<inputVars, calls, logged, dataVars, model_X, loopVars>>

\* --------------------------------------------------------- model_pipeline
\* model = shuffle_data(model)
ShuffleData ==
  /\ pc = "shuffle_data"
  /\ \/ Returns("shuffle_data", "-", "-", "sample_data")
     \/ Raises("shuffle_data", "-", "-")
  /\ UNCHANGED <<inputVars, logged, dataVars, model_X, loopVars>>

\* whether the sampling block and get_sample_weights are reached at all
\* (__main__.py: classification only; alpha.py: always)
InSamplingBlock_Always(e, sp) == TRUE
InSamplingBlock_AlphaOnly(e, sp) == e = "alpha"
InSamplingBlock(e, sp) == e = "alpha" \/ sp.model_type = "classification"

\* if sampling: model = sample_data(model) else: "Skipping Sampling"
SampleData ==
  /\ pc = "sample_data"
  /\ IF ~InSamplingBlock(entry, specs)
       THEN Goto("get_estimators") /\ UNCHANGED <<calls, logged>>
       ELSE IF specs.sampling
         THEN /\ \/ Returns("sample_data", "-", "-", "get_sample_weights")
                 \/ Raises("sample_data", "-", "-")
              /\ UNCHANGED logged
         ELSE /\ logged' = Append(logged, Msg("Skipping Sampling", "-"))
              /\ Goto("get_sample_weights")
              /\ UNCHANGED calls
  /\ UNCHANGED <<inputVars, dataVars, model_X, loopVars>>

\* model = get_sample_weights(model)
GetSampleWeights ==
  /\ pc = "get_sample_weights"
  /\ \/ Returns("get_sample_weights", "-", "-", "get_estimators")
     \/ Raises("get_sample_weights", "-", "-")
  /\ UNCHANGED <<inputVars, logged, dataVars, model_X, loopVars>>

\* estimators = get_estimators(model)
GetEstimators ==
  /\ pc = "get_estimators"
  /\ \/ Returns("get_estimators", "-", "-", "check_scorer")
     \/ Raises("get_estimators", "-", "-")
  /\ UNCHANGED <<inputVars, logged, dataVars, model_X, loopVars>>

\* if scorer not in scorers: raise KeyError
ScorerFound_Any(s) == TRUE
ScorerFound(s) == s \in scorers

CheckScorer ==
  /\ pc = "check_scorer"
  /\ IF ScorerFound(specs.scorer) THEN Goto("for") ELSE Raise("KeyError")
  /\ UNCHANGED <<inputVars, calls, logged, dataVars, model_X, loopVars>>

\* for algo in model.algolist: try: estimator = estimators[algo]; ...
\* except KeyError: log "Algorithm %s not found" (and fall through)
SelectEstimator ==
  /\ pc = "for"
  /\ IF i > Len(algolist)
       THEN /\ Goto("predict_blend")
            /\ UNCHANGED <<logged, estimator, scoring, est>>
       ELSE LET algo == algolist[i]
            IN /\ Goto("select_features")
               /\ IF algo \in DOMAIN estimators
                    THEN /\ estimator' = algo
                         /\ scoring' = estimators[algo].scoring
                         /\ est' = estimators[algo].estimator
                         /\ UNCHANGED logged
                    ELSE /\ logged' = Append(logged, Msg("Algorithm not found", algo))
                         /\ UNCHANGED <<estimator, scoring, est>>
  /\ UNCHANGED <<inputVars, calls, dataVars, model_X, i, sw_X_test>>

\* the steps of the loop body, in program order
Then_GridFirst(p) ==
  CASE p = "select_features"  -> "first_fit"
    [] p = "first_fit"        -> "grid_search"
    [] p = "grid_search"      -> "rfe"
    [] p = "rfe"              -> "make_predictions"
    [] p = "make_predictions" -> "for"
Then(p) ==
  CASE p = "select_features"  -> "first_fit"
    [] p = "first_fit"        -> "rfe"
    [] p = "rfe"              -> "grid_search"
    [] p = "grid_search"      -> "make_predictions"
    [] p = "make_predictions" -> "for"

\* the guard of the feature selection step
\* (__main__.py: feature_selection; alpha.py: feature_selection and not grid_search)
SelectsFeatures_NoGrid(e, sp) == sp.feature_selection /\ ~sp.grid_search
SelectsFeatures(e, sp) ==
  IF e = "alpha" THEN sp.feature_selection /\ ~sp.grid_search
  ELSE sp.feature_selection

\* select_features(model): one more reduction of the model's feature tables
select_features(m) == [m EXCEPT !.selected = @ + 1]

\* if feature_selection: model = select_features(model)
SelectFeatures ==
  /\ pc = "select_features"
  /\ IF SelectsFeatures(entry, specs)
       THEN \/ /\ Returns("select_features", algolist[i], "-", Then(pc))
               /\ model_X' = select_features(model_X)
            \/ /\ Raises("select_features", algolist[i], "-")
               /\ UNCHANGED model_X
       ELSE Goto(Then(pc)) /\ UNCHANGED <<calls, model_X>>
  /\ UNCHANGED <<inputVars, logged, dataVars, loopVars>>

\* model = first_fit(model, algo, est); reading an unassigned est raises
FirstFit ==
  /\ pc = "first_fit"
  /\ IF est = Unbound
       THEN Raise("UnboundLocalError") /\ UNCHANGED calls
       ELSE \/ Returns("first_fit", algolist[i], est, Then(pc))
            \/ Raises("first_fit", algolist[i], est)
  /\ UNCHANGED <<inputVars, logged, dataVars, model_X, loopVars>>

\* hasattr(est, "coef_")
hasattr_coef(e) ==
  \E k \in DOMAIN estimators : estimators[k].estimator = e /\ estimators[k].coef

\* which elimination the rfe block runs for the current locals
RfeChoice_CoefFirst(sc, e) ==
  IF hasattr_coef(e) THEN "rfe_search" ELSE IF sc THEN "rfecv_search" ELSE "none"
RfeChoice(sc, e) ==
  IF sc THEN "rfecv_search" ELSE IF hasattr_coef(e) THEN "rfe_search" ELSE "none"

\* if rfe: rfecv_search / rfe_search / "No RFE Available"
Rfe ==
  /\ pc = "rfe"
  /\ IF ~specs.rfe
       THEN Goto(Then(pc)) /\ UNCHANGED <<calls, logged>>
       ELSE IF RfeChoice(scoring, est) = "none"
         THEN /\ logged' = Append(logged, Msg("No RFE Available", algolist[i]))
              /\ Goto(Then(pc))
              /\ UNCHANGED calls
         ELSE /\ \/ Returns(RfeChoice(scoring, est), algolist[i], "-", Then(pc))
                 \/ Raises(RfeChoice(scoring, est), algolist[i], "-")
              /\ UNCHANGED logged
  /\ UNCHANGED <<inputVars, dataVars, model_X, loopVars>>

\* if grid_search: model = hyper_grid_search(model, estimator)
GridSearch ==
  /\ pc = "grid_search"
  /\ IF specs.grid_search
       THEN \/ Returns("hyper_grid_search", estimator, "-", Then(pc))
            \/ Raises("hyper_grid_search", estimator, "-")
       ELSE Goto(Then(pc)) /\ UNCHANGED calls
  /\ UNCHANGED <<inputVars, logged, dataVars, model_X, loopVars>>

\* model = make_predictions(model, algo, calibration); next algorithm
MakePredictions ==
  /\ pc = "make_predictions"
  /\ \/ /\ Returns("make_predictions", algolist[i], "-", Then(pc))
        /\ i' = i + 1
     \/ /\ Raises("make_predictions", algolist[i], "-")
        /\ UNCHANGED i
  /\ UNCHANGED <<inputVars, logged, dataVars, model_X, estimator, scoring, est,
                 sw_X_test>>

\* the guard of the blend: len(model.algolist) > 1
Blends(al) == Len(al) > 1

\* the statements after the loop, in program order
After_Swapped(p) ==
  CASE p = "predict_blend"          -> "predict_best"
    [] p = "predict_best"           -> "generate_metrics_train"
    [] p = "generate_metrics_train" -> "generate_metrics_test"
    [] p = "generate_metrics_test"  -> "generate_plots_train"
    [] p = "generate_plots_train"   -> "generate_plots_test"
    [] p = "generate_plots_test"    -> "save_model"
    [] p = "save_model"             -> "done"
After_SaveFirst(p) ==
  CASE p = "predict_blend"          -> "generate_metrics_train"
    [] p = "generate_metrics_train" -> "generate_metrics_test"
    [] p = "generate_metrics_test"  -> "predict_best"
    [] p = "predict_best"           -> "save_model"
    [] p = "save_model"             -> "generate_plots_train"
    [] p = "generate_plots_train"   -> "generate_plots_test"
    [] p = "generate_plots_test"    -> "done"
After(p) ==
  CASE p = "predict_blend"          -> "generate_metrics_train"
    [] p = "generate_metrics_train" -> "generate_metrics_test"
    [] p = "generate_metrics_test"  -> "predict_best"
    [] p = "predict_best"           -> "generate_plots_train"
    [] p = "generate_plots_train"   -> "generate_plots_test"
    [] p = "generate_plots_test"    -> "save_model"
    [] p = "save_model"             -> "done"

\* if len(model.algolist) > 1: model = predict_blend(model)
PredictBlend ==
  /\ pc = "predict_blend"
  /\ IF Blends(algolist)
       THEN \/ Returns("predict_blend", "-", "-", After(pc))
            \/ Raises("predict_blend", "-", "-")
       ELSE Goto(After(pc)) /\ UNCHANGED calls
  /\ UNCHANGED <<inputVars, logged, dataVars, model_X, loopVars>>

\* model = generate_metrics(model, 'train'); model = generate_metrics(model, 'test')
GenerateMetrics ==
  /\ \E part \in {"train", "test"} :
       /\ pc = "generate_metrics_" \o part
       /\ \/ Returns("generate_metrics", part, "-", After(pc))
          \/ Raises("generate_metrics", part, "-")
  /\ UNCHANGED <<inputVars, logged, dataVars, model_X, loopVars>>

\* model = predict_best(model)
PredictBest ==
  /\ pc = "predict_best"
  /\ \/ Returns("predict_best", "-", "-", After(pc))
     \/ Raises("predict_best", "-", "-")
  /\ UNCHANGED <<inputVars, logged, dataVars, model_X, loopVars>>

\* the guard of the test plots: if test_labels
PlotsTest_Always(sp) == TRUE
PlotsTest(sp) == sp.test_labels

\* generate_plots(model, 'train'); if test_labels: generate_plots(model, 'test')
GeneratePlots ==
  /\ \/ /\ pc = "generate_plots_train"
        /\ \/ Returns("generate_plots", "train", "-", After(pc))
           \/ Raises("generate_plots", "train", "-")
     \/ /\ pc = "generate_plots_test"
        /\ IF PlotsTest(specs)
             THEN \/ Returns("generate_plots", "test", "-", After(pc))
                  \/ Raises("generate_plots", "test", "-")
             ELSE Goto(After(pc)) /\ UNCHANGED calls
  /\ UNCHANGED <<inputVars, logged, dataVars, model_X, loopVars>>

\* save_model(model, 'BEST', 'test'); return model
SaveModel ==
  /\ pc = "save_model"
  /\ \/ Returns("save_model", "BEST", "test", After(pc))
     \/ Raises("save_model", "BEST", "test")
  /\ UNCHANGED <<inputVars, logged, dataVars, model_X, loopVars>>

\* ------------------------------------------------------- score_with_model
\* what load_model_object(directory) can do: it cannot return a model
\* when none was saved
LoadOutcomes(p) == IF p THEN {TRUE, FALSE} ELSE {FALSE}

\* X_test = model.X_test
ScoredTable_Train(m) == m.train
ScoredTable(m) == m.test

\* X_test = model.X_test; predictor = load_model_object(directory)
LoadModelObject ==
  /\ pc = "load_model_object"
  /\ sw_X_test' = ScoredTable(model_X)
  /\ \E ok \in LoadOutcomes(persisted) :
       IF ok THEN Returns("load_model_object", "directory", "-", "predict")
             ELSE Raises("load_model_object", "directory", "-")
  /\ UNCHANGED <<inputVars, logged, dataVars, model_X, i, estimator, scoring, est>>

\* preds = predictor.predict(X_test); logger.info("Predictions: %s", preds)
Predict ==
  /\ pc = "predict"
  /\ \/ /\ Returns("predict", "X_test", "-", "predict_proba")
        /\ logged' = Append(logged, Msg("Predictions", "-"))
     \/ /\ Raises("predict", "X_test", "-")
        /\ UNCHANGED logged
  /\ UNCHANGED <<inputVars, dataVars, model_X, loopVars>>

\* if classification: probas = predictor.predict_proba(X_test)[:, 1]
PredictProba ==
  /\ pc = "predict_proba"
  /\ IF specs.model_type = "classification"
       THEN \/ /\ Returns("predict_proba", "X_test", "-", "done")
               /\ logged' = Append(logged, Msg("Probabilities", "-"))
            \/ /\ Raises("predict_proba", "X_test", "-")
               /\ UNCHANGED logged
       ELSE Goto("done") /\ UNCHANGED <<calls, logged>>
  /\ UNCHANGED <<inputVars, dataVars, model_X, loopVars>>

\* ------------------------------------------------------------------- Next
Next ==
  \/ main
  \/ main_pipeline
  \/ get_data
  \/ DropFeatures
  \/ LogStatistics
  \/ Merge
  \/ CreateFeatures
  \/ CreateInteractions
  \/ RemoveLvFeatures
  \/ Branch
  \/ ShuffleData
  \/ SampleData
  \/ GetSampleWeights
  \/ GetEstimators
  \/ CheckScorer
  \/ SelectEstimator
  \/ SelectFeatures
  \/ FirstFit
  \/ Rfe
  \/ GridSearch
  \/ MakePredictions
  \/ PredictBlend
  \/ GenerateMetrics
  \/ PredictBest
  \/ GeneratePlots
  \/ SaveModel
  \/ LoadModelObject
  \/ Predict
  \/ PredictProba

Spec == Init /\ [][Next]_vars

\* ------------------------------------------------------------- properties
Resolves(a) == a \in DOMAIN estimators
ListIds == {algolist[k] : k \in 1..Len(algolist)}
ResolvedIds == {a \in ListIds : Resolves(a)}
Invoked(fn) == fn \in Fns(calls)
InvokedFor(fn, a) == PosA(calls, fn, a) # {}
ReturnedFor(fn, a) == \E k \in PosA(calls, fn, a) : calls[k].ok
\* ids for which make_predictions returned: these have predictions stored
Produced == {a \in ListIds : ReturnedFor("make_predictions", a)}
LoopFns == {"select_features", "first_fit", "rfecv_search", "rfe_search",
            "hyper_grid_search", "make_predictions"}
AfterBlendPcs == {"generate_metrics_train", "generate_metrics_test",
                  "predict_best", "generate_plots_train",
                  "generate_plots_test", "save_model", "done"}
Training == ~specs.scoring

\* C1: with algolist = [A, B], A not in the registry and B in it, the loop
\* logs the lookup failure of A, lets no exception of its own escape, runs
\* none of first_fit / RFE / grid search / make_predictions for A, and when
\* the loop is over only B has artifacts.
C1_UnresolvedIsSkipped ==
  (/\ Training
   /\ Len(algolist) = 2
   /\ ~Resolves(algolist[1])
   /\ Resolves(algolist[2]))
  => /\ exc # "UnboundLocalError"
     /\ \A fn \in {"first_fit", "rfecv_search", "rfe_search", "make_predictions"} :
          ~InvokedFor(fn, algolist[1])
     /\ pc \in {"predict_blend"} \cup AfterBlendPcs => Produced = {algolist[2]}

\* C2: predict_blend is invoked exactly when at least two algorithms of the
\* list produced artifacts; when exactly one id of the list resolves, no
\* blend step runs.
C2_BlendIffTwoProduced ==
  Training =>
    /\ Invoked("predict_blend") => Cardinality(Produced) >= 2
    /\ pc \in AfterBlendPcs => (Invoked("predict_blend") <=> Cardinality(Produced) >= 2)
    /\ Cardinality(ResolvedIds) = 1 => ~Invoked("predict_blend")

\* the tables as they stand after the drop, computed from the inputs
DroppedTrain == drop_features(source.train, specs.drop)
DroppedTest == drop_features(source.test, specs.drop)
FeatureFns == {"create_features", "create_interactions", "remove_lv_features",
               "save_features"}
DownstreamFns == {"load_model_object", "predict", "predict_proba",
                  "shuffle_data", "get_estimators"}
PreMergePcs == {"main", "main_pipeline", "get_data", "drop_features",
                "statistics", "merge"}

\* C3: when the train and test tables differ in column count after the drop,
\* data_pipeline raises the shape error before merging: no feature transform
\* and no save_features is invoked, the model's feature tables stay as they
\* were, and neither the scoring path nor the model pipeline starts.
C3_ShapeErrorBeforeMerge ==
  shape(DroppedTrain)[2] # shape(DroppedTest)[2] =>
    /\ pc \in PreMergePcs \cup {"raised"}
    /\ (pc = "raised" /\ ReturnedFor("drop_features", "test")) => exc = "IndexError"
    /\ Fns(calls) \cap (FeatureFns \cup DownstreamFns) = {}
    /\ X = NoTable
    /\ model_X.saved = 0 /\ model_X.train = NoTable /\ model_X.test = NoTable

C3_Witness ==
  /\ shape(DroppedTrain)[2] # shape(DroppedTest)[2]
  /\ pc = "raised"
  /\ exc = "IndexError"

C5_SplitPointInvariant ==
  /\ X # NoTable => split_point = DroppedTrain.rows
  /\ model_X.saved > 0 =>
       /\ model_X.train.rows = split_point
       /\ model_X.train.rows + model_X.test.rows = X.rows

\* C6: when a feature transform returns a table whose row count differs from
\* that of its input, data_pipeline fails instead of re-splitting that table
\* and saving the snapshot.
C6_RowCountChangeIsFatal ==
  /\ (ReturnedFor("create_features", "X") /\ new_features.rows # X.rows)
       => ~InvokedFor("save_features", "1")
  /\ (ReturnedFor("create_interactions", "new_features")
        /\ all_features.rows # new_features.rows)
       => ~InvokedFor("save_features", "2")
  /\ (ReturnedFor("remove_lv_features", "all_features")
        /\ sig_features.rows # all_features.rows)
       => ~InvokedFor("save_features", "3")

TrainingFns == {"shuffle_data", "sample_data", "first_fit", "rfecv_search",
                "rfe_search", "hyper_grid_search", "make_predictions",
                "predict_blend", "generate_metrics", "predict_best",
                "generate_plots", "save_model"}
ScoringFns == {"load_model_object", "predict", "predict_proba"}

\* C7: in one run either the scoring path or the model pipeline runs, never
\* both: with the scoring flag set, score_with_model runs and no training
\* collaborator is invoked; without it, model_pipeline runs and
\* load_model_object is never invoked.
C7_ScoringExcludesTraining ==
  /\ specs.scoring =>
       /\ Fns(calls) \cap TrainingFns = {}
       /\ pc = "done" => Invoked("load_model_object")
  /\ ~specs.scoring =>
       /\ Fns(calls) \cap ScoringFns = {}
       /\ pc = "done" => Invoked("shuffle_data")

C7_Witness ==
  /\ specs.scoring
  /\ pc = "done"
  /\ Invoked("predict")

\* C8: in scoring mode with no persisted model, the failure of
\* load_model_object ends the run: predict and predict_proba are not
\* invoked and no prediction is logged.
C8_NoModelNoPrediction ==
  (specs.scoring /\ ~persisted) =>
    /\ ~Invoked("predict") /\ ~Invoked("predict_proba")
    /\ \A k \in 1..Len(logged) : logged[k].msg \notin {"Predictions", "Probabilities"}
    /\ Invoked("load_model_object") => pc = "raised"

C8_Witness ==
  /\ specs.scoring /\ ~persisted
  /\ Invoked("load_model_object")
  /\ pc = "raised"

\* position of a collaborator call in the order of the model pipeline phases
Rank(c) ==
  CASE c.fn \in LoopFns -> 1
    [] c.fn = "predict_blend" -> 2
    [] c.fn = "generate_metrics" /\ c.a1 = "train" -> 3
    [] c.fn = "generate_metrics" /\ c.a1 = "test" -> 4
    [] c.fn = "predict_best" -> 5
    [] c.fn = "generate_plots" -> 6
    [] c.fn = "save_model" -> 7
    [] OTHER -> 0

\* C9: in training mode the phases come in one order and never go back:
\* per-algorithm processing, blend, metrics (train, then test), best-model
\* selection, persistence; predict_blend, predict_best and save_model are
\* each invoked at most once, and only after the phase before has finished.
C9_PhasesInOrder ==
  Training =>
    /\ \A j, k \in 1..Len(calls) : j < k => Rank(calls[j]) <= Rank(calls[k])
    /\ \A fn \in {"predict_blend", "predict_best", "save_model"} :
         Cardinality(Pos(calls, fn)) <= 1
    /\ \A k \in 1..Len(calls) : Rank(calls[k]) >= 2 =>
         \A j \in 1..(k - 1) : calls[j].ok
    /\ (Invoked("predict_blend") \/ Invoked("generate_metrics")) =>
         \A a \in ListIds : ReturnedFor("make_predictions", a)
    /\ Invoked("predict_best") =>
         ReturnedFor("generate_metrics", "train") /\ ReturnedFor("generate_metrics", "test")
    /\ Invoked("save_model") => \E k \in Pos(calls, "predict_best") : calls[k].ok

C9_Witness ==
  /\ Training
  /\ pc = "done"
  /\ Invoked("predict_blend")
  /\ Invoked("save_model")

\* C10: when the configured scorer name is not in the scorer registry,
\* model_pipeline raises before the first algorithm is looked up or fitted:
\* first_fit, make_predictions, predict_blend, generate_metrics,
\* predict_best and save_model are never invoked.
C10_UnknownScorerIsFatal ==
  (Training /\ specs.scorer \notin scorers) =>
    /\ Fns(calls) \cap (LoopFns \cup {"predict_blend", "generate_metrics",
                                      "predict_best", "generate_plots",
                                      "save_model"}) = {}
    /\ estimator = Unbound /\ est = Unbound /\ i = 1
    /\ pc \notin {"for", "select_features", "first_fit", "rfe", "grid_search",
                  "make_predictions", "predict_blend", "done"} \cup AfterBlendPcs
    /\ (pc = "raised" /\ ReturnedFor("get_estimators", "-")) => exc = "KeyError"

C10_Witness ==
  /\ Training
  /\ specs.scorer \notin scorers
  /\ pc = "raised"
  /\ exc = "KeyError"

\* position in the algorithm list of the iteration that made call k
IterOf(k) ==
  Cardinality({j \in 1..(k - 1) : calls[j].fn = "make_predictions"}) + 1
FailedLoopCalls == {k \in 1..Len(calls) : calls[k].fn \in LoopFns /\ ~calls[k].ok}

\* C11: a failure raised in one algorithm's feature selection, initial fit,
\* elimination, grid search or prediction step does not abort the loop: every
\* later algorithm of the list is still processed, and the run does not end
\* on the failure before the loop has gone through the whole list.
C11_FailureIsolatedPerAlgorithm ==
  Training =>
    \A k \in FailedLoopCalls :
      pc = "raised" =>
        \A n \in (IterOf(k) + 1)..Len(algolist) :
          InvokedFor("first_fit", algolist[n])

\* C12: a failure of generate_plots (train or test split) does not stop the
\* run: it does not end on that failure, save_model(model, 'BEST', 'test')
\* is still invoked afterwards.
C12_PlotFailureNotFatal ==
  \A k \in Pos(calls, "generate_plots") :
    ~calls[k].ok => ~(pc = "raised" /\ ~Invoked("save_model"))

\* C13: when test labels are not available, generate_metrics(model, 'test')
\* is never invoked; generate_metrics(model, 'train') is invoked in every
\* training run that gets to the metrics.
C13_TestMetricsOnlyWithLabels ==
  Training =>
    /\ pc \in {"generate_metrics_test", "predict_best"} =>
         InvokedFor("generate_metrics", "train")
    /\ ~specs.test_labels => ~InvokedFor("generate_metrics", "test")

\* C14: an id of the list that is not in the estimator registry is skipped
\* at any position: no first_fit, rfecv_search, rfe_search, hyper_grid_search
\* or make_predictions for it, and no estimator of an earlier algorithm is
\* fitted under the unresolved id.
C14_UnresolvedNeverFitted ==
  \A k \in 1..Len(calls) :
    (calls[k].fn \in LoopFns \ {"select_features"}) =>
      /\ Resolves(algolist[IterOf(k)])
      /\ calls[k].fn = "first_fit" =>
           calls[k].a2 = estimators[algolist[IterOf(k)]].estimator

\* the estimator object passed to first_fit in the iteration of id a
FitEst(a) == calls[CHOOSE k \in PosA(calls, "first_fit", a) : TRUE].a2
\* the scoring flag and the coef_ attribute that go with estimator object e
ScoringOf(e) == \E k \in DOMAIN estimators :
                  estimators[k].estimator = e /\ estimators[k].scoring
CoefOf(e) == \E k \in DOMAIN estimators :
               estimators[k].estimator = e /\ estimators[k].coef
NoRfeLogged(a) == {k \in 1..Len(logged) : logged[k] = Msg("No RFE Available", a)}
RfeBranches(a) ==
  Cardinality(PosA(calls, "rfecv_search", a))
    + Cardinality(PosA(calls, "rfe_search", a))
    + Cardinality(NoRfeLogged(a))

\* C15: with recursive elimination enabled each processed algorithm takes
\* exactly one of three branches: rfecv_search when the estimator's scoring
\* flag is true, otherwise rfe_search when the estimator object has coef_,
\* otherwise none, with a logged reason; with it disabled neither search is
\* invoked.
C15_RfeThreeWayBranch ==
  \A a \in ListIds :
    /\ RfeBranches(a) <= 1
    /\ ~specs.rfe => RfeBranches(a) = 0
    /\ (specs.rfe /\ InvokedFor("make_predictions", a)) => RfeBranches(a) = 1
    /\ InvokedFor("rfecv_search", a) => ScoringOf(FitEst(a))
    /\ InvokedFor("rfe_search", a) => ~ScoringOf(FitEst(a)) /\ CoefOf(FitEst(a))
    /\ NoRfeLogged(a) # {} => ~ScoringOf(FitEst(a)) /\ ~CoefOf(FitEst(a))

C15_Witness ==
  /\ pc = "done"
  /\ InvokedFor("rfecv_search", "e1")
  /\ InvokedFor("rfe_search", "e2")

\* select_features runs once per iteration, ahead of first_fit, whenever
\* `on` holds, and the model's tables are reduced once per iteration
SelectionPerIteration(on) ==
  Training =>
    /\ ~on => ~Invoked("select_features")
    /\ on =>
         /\ \A a \in ListIds : Cardinality(PosA(calls, "select_features", a)) <= 1
         /\ \A k \in Pos(calls, "first_fit") :
              \E j \in PosA(calls, "select_features", algolist[IterOf(k)]) :
                j < k /\ calls[j].ok
         /\ pc = "first_fit" => model_X.selected = i
    /\ model_X.selected =
         Cardinality({k \in Pos(calls, "select_features") : calls[k].ok})

\* C16 as stated: with feature selection enabled, select_features is applied
\* once in every algorithm's iteration before first_fit, whatever the other
\* options (grid search included), so the k-th algorithm sees the tables
\* after k selections.
C16_SelectionEveryIteration == SelectionPerIteration(specs.feature_selection)

\* C16 amended: as above in __main__.py; in alpha.py only when grid search
\* is disabled, and with grid search enabled select_features is not invoked.
C16_SelectionEveryIterationPerEntry ==
  SelectionPerIteration(specs.feature_selection
                          /\ (entry = "alpha" => ~specs.grid_search))

C16_Witness ==
  /\ entry = "__main__"
  /\ specs.feature_selection /\ specs.grid_search
  /\ Len(algolist) = 2
  /\ pc = "done"
  /\ model_X.selected = 2

\* place of a loop call among the steps of one iteration
StepRank(c) ==
  CASE c.fn = "select_features" -> 1
    [] c.fn = "first_fit" -> 2
    [] c.fn \in {"rfecv_search", "rfe_search"} -> 3
    [] c.fn = "hyper_grid_search" -> 4
    [] c.fn = "make_predictions" -> 5
LoopCalls == {k \in 1..Len(calls) : calls[k].fn \in LoopFns}

\* C17: algorithms are processed one at a time in list order; within one
\* algorithm the steps come in the order feature selection, initial fit,
\* elimination, grid search, predictions; first_fit and make_predictions are
\* invoked exactly once per processed algorithm, and no step of the next
\* algorithm starts before make_predictions of the current one has returned.
C17_LoopStepsInOrder ==
  Training =>
    /\ \A k \in LoopCalls :
         /\ IterOf(k) <= Len(algolist)
         /\ calls[k].fn # "hyper_grid_search" => calls[k].a1 = algolist[IterOf(k)]
    /\ \A j, k \in LoopCalls :
         j < k => /\ calls[j].ok
                  /\ IterOf(j) <= IterOf(k)
                  /\ IterOf(j) = IterOf(k) => StepRank(calls[j]) < StepRank(calls[k])
    /\ \A k \in Pos(calls, "make_predictions") :
         Cardinality({j \in Pos(calls, "first_fit") : IterOf(j) = IterOf(k)}) = 1
    /\ \A n \in 1..Len(algolist) :
         Cardinality({k \in Pos(calls, "make_predictions") : IterOf(k) = n}) <= 1

C17_Witness ==
  /\ Training
  /\ pc = "done"
  /\ Len(algolist) = 2
  /\ Invoked("select_features")
  /\ Invoked("rfe_search")
  /\ Invoked("hyper_grid_search")

\* the run ended on an exception raised before save_model was reached
FatalBeforePersistence ==
  /\ pc = "raised"
  /\ ~(calls # <<>> /\ calls[Len(calls)].fn = "save_model")

\* C18: a run that ends with a fatal error raised before persistence (column
\* mismatch, unknown scorer, missing persisted model, any failing stage) has
\* not invoked save_model; save_model is invoked only in training mode and
\* only after predict_best has returned.
C18_NoSaveOnFatalError ==
  /\ FatalBeforePersistence => ~Invoked("save_model")
  /\ \A k \in Pos(calls, "save_model") :
       /\ Training
       /\ \E j \in Pos(calls, "predict_best") : j < k /\ calls[j].ok

C18_Witness ==
  /\ FatalBeforePersistence
  /\ Invoked("predict_best")
  /\ Invoked("generate_plots")

\* C19: once main_pipeline has started no step writes the configuration map:
\* model.specs keeps, to the end of the run or to the fatal error, the value
\* it had when main_pipeline was entered; the only write (the scoring flag)
\* is made by main before the Model is created.
C19_SpecsReadOnly == [][pc # "main" => specs' = specs]_vars

C19_Witness ==
  /\ entry = "__main__"
  /\ args.scoring /\ specs.scoring
  /\ pc = "done"

DataFns == {"get_data", "drop_features", "create_features",
            "create_interactions", "remove_lv_features", "save_features"}
Downstream(c) ==
  c.fn \in ScoringFns \cup TrainingFns
             \cup {"get_sample_weights", "get_estimators", "select_features"}
Snapshot(n) == Call("save_features", n, "-", TRUE)

\* C20: in both modes data_pipeline runs once and has saved its three
\* snapshots before score_with_model or model_pipeline starts, and the table
\* score_with_model predicts on is the last snapshot: the test part of the
\* low-variance-filtered table.
C20_DataPipelineFirst ==
  /\ \A k \in 1..Len(calls) :
       Downstream(calls[k]) =>
         /\ \A n \in {"1", "2", "3"} : \E j \in 1..(k - 1) : calls[j] = Snapshot(n)
         /\ \A j \in (k + 1)..Len(calls) : calls[j].fn \notin DataFns
  /\ \A j, k \in 1..Len(calls) :
       (j < k /\ calls[j].fn \in DataFns) =>
         ~(calls[j].fn = calls[k].fn /\ calls[j].a1 = calls[k].a1)
  /\ pc \in {"load_model_object", "shuffle_data"} => model_X.saved = 3
  /\ Invoked("predict") =>
       /\ model_X.saved = 3
       /\ sw_X_test = array_split(sig_features, split_point)[2]

C20_Witness ==
  /\ specs.scoring
  /\ pc = "done"
  /\ Invoked("predict")
  /\ sw_X_test # array_split(new_features, split_point)[2]
  /\ sw_X_test # array_split(all_features, split_point)[2]

\* ---------------------------------------------------------- termination
\* main_pipeline is sequential code: whenever a step is pending it is taken,
\* since every collaborator call either returns or raises.
LiveSpec == Init /\ [][Next]_vars /\ WF_vars(Next)

Terminated == pc \in {"done", "raised"}
\* the call site of call k: the collaborator and its arguments, and for the
\* steps of the loop body the iteration that made the call
SameSite(j, k) ==
  IF calls[j].fn \in LoopFns
    THEN calls[j].fn = calls[k].fn /\ IterOf(j) = IterOf(k)
    ELSE calls[j].fn = calls[k].fn /\ calls[j].a1 = calls[k].a1
           /\ calls[j].a2 = calls[k].a2
NoCallRepeated ==
  /\ \A j, k \in 1..Len(calls) : j < k => ~SameSite(j, k)
  /\ \A k \in 1..Len(calls) : ~calls[k].ok => k = Len(calls)
  /\ (pc = "raised") <=> (exc # "none")
  /\ Len(calls) <= 23 + 5 * Len(algolist)

\* C21: every run of main_pipeline ends, by returning the model or with a
\* fatal error, and nothing is retried: no collaborator call is made after
\* one has raised, and each call is made at most once per run (once per
\* iteration of the loop for the per-algorithm steps).
C21_TerminatesWithoutRetry == []NoCallRepeated /\ <>Terminated

C21_Witness ==
  /\ pc = "raised"
  /\ Len(algolist) = 2
  /\ i = 2
  /\ Invoked("hyper_grid_search")
  /\ calls[Len(calls)] = Call("first_fit", algolist[2], est, FALSE)

Classification == specs.model_type = "classification"
\* the statistics of data_pipeline have been logged
PastStatistics == ReturnedFor("drop_features", "test") /\ pc # "statistics"

\* C22: in data_pipeline of __main__.py the unique values of the test target
\* are probed exactly when the model type is classification and test labels
\* are available, those of the train target only when the model type is
\* classification; a regression run probes neither.
C22_ProbesGated ==
  entry = "__main__" =>
    /\ InvokedFor("np.unique", "y_train") => Classification
    /\ InvokedFor("np.unique", "y_test") => Classification /\ specs.test_labels
    /\ PastStatistics =>
         (InvokedFor("np.unique", "y_test") <=>
            (Classification /\ specs.test_labels))
    /\ ~Classification => ~Invoked("np.unique")

C22_Witness ==
  /\ entry = "__main__"
  /\ ~Classification /\ specs.test_labels
  /\ PastStatistics
  /\ pc = "done"

\* C23: in model_pipeline of __main__.py sample_data is invoked exactly when
\* the model type is classification and sampling is enabled, and
\* get_sample_weights exactly when the model type is classification, both
\* after shuffle_data and before get_estimators; in a regression run the
\* call that follows shuffle_data is get_estimators.
C23_SamplingGated ==
  entry = "__main__" =>
    /\ Invoked("sample_data") => Classification /\ specs.sampling
    /\ Invoked("get_sample_weights") =>
         /\ Classification
         /\ specs.sampling => ReturnedFor("sample_data", "-")
    /\ (ReturnedFor("shuffle_data", "-") /\ pc # "sample_data") =>
         (Invoked("sample_data") <=> (Classification /\ specs.sampling))
    /\ Invoked("get_estimators") =>
         (Invoked("get_sample_weights") <=> Classification)
    /\ \A k \in Pos(calls, "sample_data") \cup Pos(calls, "get_sample_weights") :
         /\ \E j \in Pos(calls, "shuffle_data") : j < k /\ calls[j].ok
         /\ \A j \in Pos(calls, "get_estimators") : k < j
    /\ \A k \in Pos(calls, "sample_data") :
         \A j \in Pos(calls, "get_sample_weights") : k < j
    /\ ~Classification =>
         \A k \in Pos(calls, "get_estimators") : calls[k - 1].fn = "shuffle_data"

C23_Witness ==
  /\ entry = "__main__"
  /\ ~Classification /\ specs.sampling
  /\ Invoked("get_estimators")
  /\ pc = "done"

\* C25: in training mode generate_plots is invoked for the train split in
\* every run that gets there and for the test split exactly when test labels
\* are available, both after predict_best has returned and before save_model;
\* save_model is invoked with 'BEST' and 'test' with or without test labels.
C25_PlotsThenSave ==
  Training =>
    /\ \A k \in Pos(calls, "generate_plots") :
         /\ \E j \in Pos(calls, "predict_best") : j < k /\ calls[j].ok
         /\ \A j \in Pos(calls, "save_model") : k < j
    /\ (ReturnedFor("predict_best", "-") /\ pc # "generate_plots_train") =>
         InvokedFor("generate_plots", "train")
    /\ InvokedFor("generate_plots", "test") =>
         specs.test_labels /\ ReturnedFor("generate_plots", "train")
    /\ Invoked("save_model") =>
         /\ ReturnedFor("generate_plots", "train")
         /\ ReturnedFor("generate_plots", "test") <=> specs.test_labels
    /\ \A k \in Pos(calls, "save_model") :
         calls[k].a1 = "BEST" /\ calls[k].a2 = "test"
    /\ pc = "done" => Invoked("save_model")

C25_Witness ==
  /\ Training
  /\ ~specs.test_labels
  /\ pc = "done"
  /\ InvokedFor("generate_plots", "train")
  /\ ~InvokedFor("generate_plots", "test")
  /\ ReturnedFor("save_model", "BEST")

\* the other of the two entry points
Other == IF entry = "__main__" THEN "alpha" ELSE "__main__"

\* The two files differ only in the guards of the target probes, of the
\* sampling block and of the feature selection; every other step reads the
\* configuration, the algorithm list and the registry alone.  A run
\* therefore makes the calls of the other entry point (same configuration,
\* same mode, same outcomes of the calls) exactly when the calls it made at
\* those sites are the ones the other file's guards select.
AgreesWithOther ==
  /\ PastStatistics =>
       /\ InvokedFor("np.unique", "y_train") <=> ProbesTrain(Other, specs)
       /\ InvokedFor("np.unique", "y_test") <=> ProbesTest(Other, specs)
  /\ (ReturnedFor("shuffle_data", "-") /\ pc # "sample_data") =>
       (Invoked("sample_data") <=>
          (InSamplingBlock(Other, specs) /\ specs.sampling))
  /\ Invoked("get_sample_weights") => InSamplingBlock(Other, specs)
  /\ Invoked("get_estimators") =>
       (Invoked("get_sample_weights") <=> InSamplingBlock(Other, specs))
  /\ Invoked("select_features") => SelectsFeatures(Other, specs)
  /\ Invoked("first_fit") =>
       (Invoked("select_features") <=> SelectsFeatures(Other, specs))

SelectionAndGrid == specs.feature_selection /\ specs.grid_search

\* C24 as stated: on every classification run the two entry points, given
\* the same mode, make the same sequence of collaborator calls with the same
\* arguments.
C24_EntryPointsEquivalent == Classification => AgreesWithOther

\* C24 amended: the same, for classification runs that do not enable both
\* feature selection and grid search; with both enabled the sequences differ
\* in select_features alone, which __main__.py invokes in each iteration and
\* alpha.py never.
C24_EntryPointsEquivalentUnlessGrid ==
  Classification =>
    /\ ~SelectionAndGrid => AgreesWithOther
    /\ (SelectionAndGrid /\ Invoked("first_fit")) =>
         (Invoked("select_features") <=> entry = "__main__")

C24_Witness ==
  /\ entry = "alpha"
  /\ Classification
  /\ specs.feature_selection /\ ~specs.grid_search /\ specs.sampling
  /\ pc = "done"
  /\ Invoked("sample_data")
  /\ Invoked("select_features")
  /\ Invoked("save_model")

====
